---- MODULE Spec2Model ----
(***************************************************************************)
(* State-machine model of the Chat component of YewChat                    *)
(* (src/YewChat/src/components/chat.rs): Chat::create and Chat::update,    *)
(* together with the serde encoding of the wire envelope they rely on.     *)
(*                                                                         *)
(* A Rust String is a sequence of one-character strings ("text").  The     *)
(* only multi-character element is the fixed URL prefix of an avatar       *)
(* template, which no operation of the component ever takes apart.         *)
(***************************************************************************)
EXTENDS Integers, Sequences, FiniteSets, TLC

(***************************************************************************)
(* Bounds of the model.                                                    *)
(***************************************************************************)
\* Inbound deliveries plus outbound Message send attempts in one run.
MaxEvents == 3
\* Longest message text delivered when the thread projection is examined.
MaxTextLen == 5
\* Longest data string and longest dataArray of an envelope put through the
\* codec.
MaxStrLen == 2
MaxArrLen == 2

(***************************************************************************)
(* Characters and text.                                                    *)
(***************************************************************************)
Q  == "\""
BS == "\\"
LF == "\n"
HT == "\t"
CR == "\r"

\* char::is_whitespace, restricted to the characters the model uses.
RustWhitespace == {" ", LF, HT, CR}
\* The four whitespace characters JSON allows between tokens.
JsonWhitespace == {" ", LF, HT, CR}
\* Characters a JSON string literal may hold only in escaped form.
ControlChars == {LF, HT, CR}
Digits == {"0", "1", "2", "3", "4", "5", "6", "7", "8", "9"}

\* Option<T>
None == [some |-> FALSE, v |-> <<>>]
Some(x) == [some |-> TRUE, v |-> x]

\* Result<T, E> of a decoding step; the error value itself is never used.
Err == [ok |-> FALSE, v |-> <<>>]
Ok(x) == [ok |-> TRUE, v |-> x]

\* str::trim(): the text without its leading and trailing whitespace.
trim(s) ==
  LET keep == {i \in 1..Len(s) : s[i] \notin RustWhitespace}
  IN IF keep = {} THEN <<>>
     ELSE LET lo == CHOOSE i \in keep : \A j \in keep : i <= j
              hi == CHOOSE i \in keep : \A j \in keep : j <= i
          IN SubSeq(s, lo, hi)

(***************************************************************************)
(* JSON text, as serde_json reads and writes it.                           *)
(***************************************************************************)
JNull     == [t |-> "null", s |-> <<>>, a |-> <<>>]
JBool     == [t |-> "bool", s |-> <<>>, a |-> <<>>]
JNum      == [t |-> "num",  s |-> <<>>, a |-> <<>>]
JStr(s)   == [t |-> "str",  s |-> s,    a |-> <<>>]
JArr(a)   == [t |-> "arr",  s |-> <<>>, a |-> a]
\* members: a sequence of [k |-> text, v |-> value], in document order
JObj(a)   == [t |-> "obj",  s |-> <<>>, a |-> a]

PFail == [ok |-> FALSE, v |-> JNull, i |-> 0]
PDone(v, i) == [ok |-> TRUE, v |-> v, i |-> i]

\* First position at or after i that holds no JSON whitespace.
SkipWs(t, i) ==
  CHOOSE j \in i..(Len(t) + 1) :
    /\ \A k \in i..(j - 1) : t[k] \in JsonWhitespace
    /\ (j = Len(t) + 1 \/ t[j] \notin JsonWhitespace)

\* t holds the literal word at position i.
Lit(t, i, word) ==
  /\ i + Len(word) - 1 <= Len(t)
  /\ SubSeq(t, i, i + Len(word) - 1) = word

\* The character an escape sequence \c stands for (\b, \f and \uXXXX are
\* outside the alphabet of the model).
Unescape ==
  (Q :> Q) @@ (BS :> BS) @@ ("/" :> "/") @@ ("n" :> LF) @@ ("t" :> HT) @@ ("r" :> CR)

\* The escape sequence serde_json writes for a character.
EscapeChar(c) ==
  CASE c = Q  -> <<BS, Q>>
    [] c = BS -> <<BS, BS>>
    [] c = LF -> <<BS, "n">>
    [] c = HT -> <<BS, "t">>
    [] c = CR -> <<BS, "r">>
    [] OTHER  -> <<c>>

RECURSIVE ParseStr(_, _, _)
\* The string literal whose opening quote precedes position i.
ParseStr(t, i, acc) ==
  IF i > Len(t) THEN PFail
  ELSE IF t[i] = Q THEN PDone(JStr(acc), i + 1)
  ELSE IF t[i] = BS THEN
    IF i + 1 > Len(t) \/ t[i + 1] \notin DOMAIN Unescape THEN PFail
    ELSE ParseStr(t, i + 2, Append(acc, Unescape[t[i + 1]]))
  ELSE IF t[i] \in ControlChars THEN PFail
  ELSE ParseStr(t, i + 1, Append(acc, t[i]))

\* End of the run of digits that starts at position i.
DigitsEnd(t, i) ==
  CHOOSE j \in i..(Len(t) + 1) :
    /\ \A k \in i..(j - 1) : t[k] \in Digits
    /\ (j = Len(t) + 1 \/ t[j] \notin Digits)

RECURSIVE ParseValue(_, _), ParseArr(_, _, _), ParseObj(_, _, _)
\* One JSON value starting at or after position i.  Of the number syntax
\* only unsigned integers are read; no frame of the model holds another.
ParseValue(t, i) ==
  LET j == SkipWs(t, i) IN
  IF j > Len(t) THEN PFail
  ELSE CASE t[j] = Q   -> ParseStr(t, j + 1, <<>>)
         [] t[j] = "[" ->
              LET k == SkipWs(t, j + 1) IN
              IF k <= Len(t) /\ t[k] = "]" THEN PDone(JArr(<<>>), k + 1)
              ELSE ParseArr(t, j + 1, <<>>)
         [] t[j] = "{" ->
              LET k == SkipWs(t, j + 1) IN
              IF k <= Len(t) /\ t[k] = "}" THEN PDone(JObj(<<>>), k + 1)
              ELSE ParseObj(t, j + 1, <<>>)
         [] Lit(t, j, <<"n", "u", "l", "l">>) -> PDone(JNull, j + 4)
         [] Lit(t, j, <<"t", "r", "u", "e">>) -> PDone(JBool, j + 4)
         [] Lit(t, j, <<"f", "a", "l", "s", "e">>) -> PDone(JBool, j + 5)
         [] t[j] = "0" -> PDone(JNum, j + 1)
         [] t[j] \in Digits \ {"0"} -> PDone(JNum, DigitsEnd(t, j))
         [] OTHER -> PFail

\* The elements of an array from position i on, up to its closing bracket.
ParseArr(t, i, acc) ==
  LET r == ParseValue(t, i) IN
  IF ~r.ok THEN PFail
  ELSE LET k == SkipWs(t, r.i) IN
       IF k > Len(t) THEN PFail
       ELSE IF t[k] = "," THEN ParseArr(t, k + 1, Append(acc, r.v))
       ELSE IF t[k] = "]" THEN PDone(JArr(Append(acc, r.v)), k + 1)
       ELSE PFail

\* The members of an object from position i on, up to its closing brace.
ParseObj(t, i, acc) ==
  LET j == SkipWs(t, i) IN
  IF j > Len(t) \/ t[j] # Q THEN PFail
  ELSE LET key == ParseStr(t, j + 1, <<>>) IN
       IF ~key.ok THEN PFail
       ELSE LET c == SkipWs(t, key.i) IN
            IF c > Len(t) \/ t[c] # ":" THEN PFail
            ELSE LET r == ParseValue(t, c + 1) IN
                 IF ~r.ok THEN PFail
                 ELSE LET k == SkipWs(t, r.i)
                          m == Append(acc, [k |-> key.v.s, v |-> r.v])
                      IN IF k > Len(t) THEN PFail
                         ELSE IF t[k] = "," THEN ParseObj(t, k + 1, m)
                         ELSE IF t[k] = "}" THEN PDone(JObj(m), k + 1)
                         ELSE PFail

\* A whole document: one value, then nothing but whitespace.
ParseJson(t) ==
  LET r == ParseValue(t, 1) IN
  IF r.ok /\ SkipWs(t, r.i) = Len(t) + 1 THEN Ok(r.v) ELSE Err

RECURSIVE Flatten(_)
Flatten(ss) == IF ss = <<>> THEN <<>> ELSE Head(ss) \o Flatten(Tail(ss))

\* A string literal: quotes around the escaped characters.
WriteStr(s) == <<Q>> \o Flatten([i \in 1..Len(s) |-> EscapeChar(s[i])]) \o <<Q>>

\* A sequence of already written values, separated by commas.
Commas(ws) ==
  Flatten([i \in 1..Len(ws) |-> IF i = 1 THEN ws[i] ELSE <<",">> \o ws[i]])

(***************************************************************************)
(* The wire types and their derived Serialize / Deserialize.               *)
(***************************************************************************)
\* Field and variant names as they appear on the wire.
F_messageType == <<"m", "e", "s", "s", "a", "g", "e", "T", "y", "p", "e">>
F_dataArray   == <<"d", "a", "t", "a", "A", "r", "r", "a", "y">>
F_data        == <<"d", "a", "t", "a">>
F_from        == <<"f", "r", "o", "m">>
F_message     == <<"m", "e", "s", "s", "a", "g", "e">>
T_null        == <<"n", "u", "l", "l">>

\* enum MsgTypes with rename_all = "lowercase": variant -> wire name.
MsgTypes ==
  [Users    |-> <<"u", "s", "e", "r", "s">>,
   Register |-> <<"r", "e", "g", "i", "s", "t", "e", "r">>,
   Message  |-> <<"m", "e", "s", "s", "a", "g", "e">>]

\* The variant a wire name stands for, if any.
VariantNamed(s) == {x \in DOMAIN MsgTypes : MsgTypes[x] = s}

\* Deserialize for MsgTypes: the variant name as a string, or the
\* externally tagged form {"<name>": null}.
De_MsgTypes(j) ==
  CASE j.t = "str" ->
         IF VariantNamed(j.s) # {} THEN Ok(CHOOSE x \in VariantNamed(j.s) : TRUE)
         ELSE Err
    [] j.t = "obj" ->
         IF Len(j.a) = 1 /\ VariantNamed(j.a[1].k) # {} /\ j.a[1].v.t = "null"
         THEN Ok(CHOOSE x \in VariantNamed(j.a[1].k) : TRUE)
         ELSE Err
    [] OTHER -> Err

\* Deserialize for String.
De_String(j) == IF j.t = "str" THEN Ok(j.s) ELSE Err

\* Deserialize for Option<String>.
De_OptString(j) ==
  CASE j.t = "null" -> Ok(None)
    [] j.t = "str"  -> Ok(Some(j.s))
    [] OTHER        -> Err

\* Deserialize for Option<Vec<String>>.
De_OptVecString(j) ==
  CASE j.t = "null" -> Ok(None)
    [] j.t = "arr"  ->
         IF \A i \in 1..Len(j.a) : j.a[i].t = "str"
         THEN Ok(Some([i \in 1..Len(j.a) |-> j.a[i].s]))
         ELSE Err
    [] OTHER        -> Err

\* Positions of the members of an object that carry key k.
Members(j, k) == {i \in 1..Len(j.a) : j.a[i].k = k}
\* The value of the one member with key k.
Member(j, k) == j.a[CHOOSE i \in Members(j, k) : TRUE].v

\* Deserialize for WebSocketMessage (rename_all = "camelCase"): a map with
\* messageType required, dataArray and data optional, unknown keys ignored
\* and a repeated key refused; or a sequence of exactly the three fields.
De_WebSocketMessage(j) ==
  CASE j.t = "obj" ->
         IF \/ Cardinality(Members(j, F_messageType)) # 1
            \/ Cardinality(Members(j, F_dataArray)) > 1
            \/ Cardinality(Members(j, F_data)) > 1
         THEN Err
         ELSE LET ty == De_MsgTypes(Member(j, F_messageType))
                  da == IF Members(j, F_dataArray) = {} THEN Ok(None)
                        ELSE De_OptVecString(Member(j, F_dataArray))
                  d  == IF Members(j, F_data) = {} THEN Ok(None)
                        ELSE De_OptString(Member(j, F_data))
              IN IF ty.ok /\ da.ok /\ d.ok
                 THEN Ok([message_type |-> ty.v, data_array |-> da.v, data |-> d.v])
                 ELSE Err
    [] j.t = "arr" ->
         IF Len(j.a) # 3 THEN Err
         ELSE LET ty == De_MsgTypes(j.a[1])
                  da == De_OptVecString(j.a[2])
                  d  == De_OptString(j.a[3])
              IN IF ty.ok /\ da.ok /\ d.ok
                 THEN Ok([message_type |-> ty.v, data_array |-> da.v, data |-> d.v])
                 ELSE Err
    [] OTHER -> Err

\* Deserialize for MessageData: from and message, both required strings.
De_MessageData(j) ==
  CASE j.t = "obj" ->
         IF \/ Cardinality(Members(j, F_from)) # 1
            \/ Cardinality(Members(j, F_message)) # 1
         THEN Err
         ELSE LET f == De_String(Member(j, F_from))
                  m == De_String(Member(j, F_message))
              IN IF f.ok /\ m.ok THEN Ok([from |-> f.v, message |-> m.v]) ELSE Err
    [] j.t = "arr" ->
         IF Len(j.a) # 2 THEN Err
         ELSE LET f == De_String(j.a[1])
                  m == De_String(j.a[2])
              IN IF f.ok /\ m.ok THEN Ok([from |-> f.v, message |-> m.v]) ELSE Err
    [] OTHER -> Err

\* serde_json::from_str::<WebSocketMessage>
from_str_WebSocketMessage(s) ==
  LET j == ParseJson(s) IN IF j.ok THEN De_WebSocketMessage(j.v) ELSE Err

\* serde_json::from_str::<MessageData>
from_str_MessageData(s) ==
  LET j == ParseJson(s) IN IF j.ok THEN De_MessageData(j.v) ELSE Err

\* Faulty variant of to_string_WebSocketMessage: an absent dataArray is
\* written as the empty array.
to_string_WebSocketMessage_empty_array(m) ==
  <<"{">>
  \o WriteStr(F_messageType) \o <<":">> \o WriteStr(MsgTypes[m.message_type])
  \o <<",">> \o WriteStr(F_dataArray) \o <<":">>
  \o <<"[">>
  \o (IF m.data_array.some
      THEN Commas([i \in 1..Len(m.data_array.v) |-> WriteStr(m.data_array.v[i])])
      ELSE <<>>)
  \o <<"]">>
  \o <<",">> \o WriteStr(F_data) \o <<":">>
  \o (IF m.data.some THEN WriteStr(m.data.v) ELSE T_null)
  \o <<"}">>

\* serde_json::to_string(&WebSocketMessage): the three fields in declaration
\* order, None written as null.
to_string_WebSocketMessage(m) ==
  <<"{">>
  \o WriteStr(F_messageType) \o <<":">> \o WriteStr(MsgTypes[m.message_type])
  \o <<",">> \o WriteStr(F_dataArray) \o <<":">>
  \o (IF m.data_array.some
      THEN <<"[">>
           \o Commas([i \in 1..Len(m.data_array.v) |-> WriteStr(m.data_array.v[i])])
           \o <<"]">>
      ELSE T_null)
  \o <<",">> \o WriteStr(F_data) \o <<":">>
  \o (IF m.data.some THEN WriteStr(m.data.v) ELSE T_null)
  \o <<"}">>

(***************************************************************************)
(* The component: struct Chat and its environment.                         *)
(***************************************************************************)
VARIABLES
  users,       \* Chat.users: the roster, a sequence of UserProfile
  messages,    \* Chat.messages: the thread, a sequence of MessageData
  chat_input,  \* Chat.chat_input: None until the input element is bound,
               \* then Some(value of the element)
  tx,          \* Chat.wss.tx: every try_send so far, [frame, ok]
  username,    \* the User context the component was created under
  delivered,   \* every frame the relay has handed to Msg::HandleMsg so far
  last,        \* the step taken last: [op, ret], ret the value update returned
  panicked,    \* an unwrap() has failed: the handler aborted
  submitted,   \* the input texts of the submits that passed the blank guard
  shown,       \* the thread as Chat::view rendered it last
  codec        \* the last application of the envelope codec on its own

vars == <<users, messages, chat_input, tx, username, delivered, last, panicked,
          submitted, shown, codec>>

\* The fields of Chat that create and update read and write.
Self == [users |-> users, messages |-> messages, chat_input |-> chat_input, tx |-> tx]

\* What a call of update leaves behind: the component, the returned
\* re-render flag, and whether the call ended in a panic instead of a return.
Return(self, ret) == [self |-> self, ret |-> ret, panicked |-> FALSE]
Panic(self) == [self |-> self, ret |-> FALSE, panicked |-> TRUE]

\* Sender::try_send: the attempt is made once; ok is the transport's answer.
try_send(chan, frame, ok) == Append(chan, [frame |-> frame, ok |-> ok])

AvatarPrefix == "https://avatars.dicebear.com/api/adventurer-neutral/"
T_svg == <<".", "s", "v", "g">>

\* Faulty variant of UserProfile: the avatar URL lacks the .svg ending.
UserProfile_no_suffix(u) == [name |-> u, avatar |-> <<AvatarPrefix>> \o u]

\* The UserProfile built for one element of dataArray.
UserProfile(u) == [name |-> u, avatar |-> <<AvatarPrefix>> \o u \o T_svg]

\* Faulty variant of create: a rejected Register send is tried a second time.
create_retry(name, ok) ==
  LET message == [message_type |-> "Register", data |-> Some(name), data_array |-> None]
      frame   == to_string_WebSocketMessage(message)
  IN [users      |-> <<>>,
      messages   |-> <<>>,
      chat_input |-> None,
      tx         |-> IF ok THEN try_send(<<>>, frame, TRUE)
                     ELSE try_send(try_send(<<>>, frame, FALSE), frame, TRUE)]

\* Chat::create
create(name, ok) ==
  LET message == [message_type |-> "Register", data |-> Some(name), data_array |-> None]
  IN [users      |-> <<>>,
      messages   |-> <<>>,
      chat_input |-> None,
      tx         |-> try_send(<<>>, to_string_WebSocketMessage(message), ok)]

\* Faulty variant of Arm_Users: the new entries are merged into the roster
\* (appended to what it held) instead of replacing it.
Arm_Users_merge(self, msg) ==
  LET users_from_message == IF msg.data_array.some THEN msg.data_array.v ELSE <<>>
  IN Return([self EXCEPT !.users =
               @ \o [i \in 1..Len(users_from_message) |->
                       UserProfile(users_from_message[i])]],
            TRUE)

\* Faulty variant of Arm_Users: an envelope without dataArray leaves the
\* roster as it was.
Arm_Users_keep(self, msg) ==
  IF ~msg.data_array.some THEN Return(self, TRUE)
  ELSE Return([self EXCEPT !.users =
                 [i \in 1..Len(msg.data_array.v) |-> UserProfile(msg.data_array.v[i])]],
              TRUE)

\* Faulty variant of Arm_Users: a re-render is asked for only when the roster
\* is not what it was.
Arm_Users_changed(self, msg) ==
  LET users_from_message == IF msg.data_array.some THEN msg.data_array.v ELSE <<>>
      roster == [i \in 1..Len(users_from_message) |-> UserProfile(users_from_message[i])]
  IN Return([self EXCEPT !.users = roster], roster # self.users)

\* Faulty variant of Arm_Users: the thread is emptied along with the roster.
Arm_Users_clear_thread(self, msg) ==
  LET users_from_message == IF msg.data_array.some THEN msg.data_array.v ELSE <<>>
  IN Return([self EXCEPT !.users =
               [i \in 1..Len(users_from_message) |-> UserProfile(users_from_message[i])],
                         !.messages = <<>>],
            TRUE)

\* Chat::update, Msg::HandleMsg, arm MsgTypes::Users
Arm_Users(self, msg) ==
  LET users_from_message == IF msg.data_array.some THEN msg.data_array.v ELSE <<>>
  IN Return([self EXCEPT !.users =
               [i \in 1..Len(users_from_message) |-> UserProfile(users_from_message[i])]],
            TRUE)

\* Faulty variant of push_message_data: the new message is put in front of
\* the thread instead of at its end.
push_message_data_front(self, message_data) ==
  IF ~message_data.ok THEN Panic(self)
  ELSE Return([self EXCEPT !.messages = <<message_data.v>> \o @], TRUE)

\* Faulty variant of push_message_data: a message equal to the one received
\* just before it is taken for a duplicate and dropped.
push_message_data_dedup(self, message_data) ==
  IF ~message_data.ok THEN Panic(self)
  ELSE IF self.messages # <<>> /\ self.messages[Len(self.messages)] = message_data.v
  THEN Return(self, TRUE)
  ELSE Return([self EXCEPT !.messages = Append(@, message_data.v)], TRUE)

\* Faulty variant of push_message_data: a payload that does not decode is
\* replaced by an empty record (unwrap_or_default) instead of ending the
\* handler.
push_message_data_lenient(self, message_data) ==
  IF ~message_data.ok
  THEN Return([self EXCEPT !.messages = Append(@, [from |-> <<>>, message |-> <<>>])], TRUE)
  ELSE Return([self EXCEPT !.messages = Append(@, message_data.v)], TRUE)

\* lines 105-108: unwrap the decoded MessageData, push it, return true.
push_message_data(self, message_data) ==
  IF ~message_data.ok THEN Panic(self)
  ELSE Return([self EXCEPT !.messages = Append(@, message_data.v)], TRUE)

\* Chat::update, Msg::HandleMsg, arm MsgTypes::Message
Arm_Message(self, msg) ==
  IF ~msg.data.some THEN Panic(self)
  ELSE push_message_data(self, from_str_MessageData(msg.data.v))

\* Faulty variant of Arm_Other: the arm asks for a re-render.
Arm_Other_render(self, msg) == Return(self, TRUE)

\* Chat::update, Msg::HandleMsg, the catch-all arm
Arm_Other(self, msg) == Return(self, FALSE)

\* Chat::update, Msg::HandleMsg: unwrap the decoded envelope and match on
\* its message_type.
match_message_type(self, msg) ==
  IF ~msg.ok THEN Panic(self)
  ELSE CASE msg.v.message_type = "Users"   -> Arm_Users(self, msg.v)
         [] msg.v.message_type = "Message" -> Arm_Message(self, msg.v)
         [] OTHER                          -> Arm_Other(self, msg.v)

\* Chat::update, Msg::HandleMsg(s)
update_HandleMsg(self, s) ==
  match_message_type(self, from_str_WebSocketMessage(s))

\* Faulty variant of update_SubmitMessage: the guard tests the raw text
\* (is_empty without trim).
update_SubmitMessage_no_trim(self, ok) ==
  IF ~self.chat_input.some THEN Return(self, FALSE)
  ELSE LET message_content == self.chat_input.v IN
       IF message_content = <<>> THEN Return(self, FALSE)
       ELSE LET message == [message_type |-> "Message",
                            data         |-> Some(message_content),
                            data_array   |-> None]
            IN Return([self EXCEPT
                         !.tx = try_send(@, to_string_WebSocketMessage(message), ok),
                         !.chat_input = Some(<<>>)],
                      FALSE)

\* Faulty variant of update_SubmitMessage: the trimmed text is sent.
update_SubmitMessage_trimmed(self, ok) ==
  IF ~self.chat_input.some THEN Return(self, FALSE)
  ELSE LET message_content == self.chat_input.v IN
       IF trim(message_content) = <<>> THEN Return(self, FALSE)
       ELSE LET message == [message_type |-> "Message",
                            data         |-> Some(trim(message_content)),
                            data_array   |-> None]
            IN Return([self EXCEPT
                         !.tx = try_send(@, to_string_WebSocketMessage(message), ok),
                         !.chat_input = Some(<<>>)],
                      FALSE)

\* Faulty variant of update_SubmitMessage: a rejected send returns at once,
\* before the input element is cleared.
update_SubmitMessage_bail(self, ok) ==
  IF ~self.chat_input.some THEN Return(self, FALSE)
  ELSE LET message_content == self.chat_input.v IN
       IF trim(message_content) = <<>> THEN Return(self, FALSE)
       ELSE LET message == [message_type |-> "Message",
                            data         |-> Some(message_content),
                            data_array   |-> None]
            IN IF ok
               THEN Return([self EXCEPT
                              !.tx = try_send(@, to_string_WebSocketMessage(message), ok),
                              !.chat_input = Some(<<>>)],
                           FALSE)
               ELSE Return([self EXCEPT
                              !.tx = try_send(@, to_string_WebSocketMessage(message), ok)],
                           FALSE)

\* Faulty variant of update_SubmitMessage: the text sent is also appended to
\* the thread at once, without waiting for the server's echo.
update_SubmitMessage_optimistic(self, ok) ==
  IF ~self.chat_input.some THEN Return(self, FALSE)
  ELSE LET message_content == self.chat_input.v IN
       IF trim(message_content) = <<>> THEN Return(self, FALSE)
       ELSE LET message == [message_type |-> "Message",
                            data         |-> Some(message_content),
                            data_array   |-> None]
            IN Return([self EXCEPT
                         !.tx = try_send(@, to_string_WebSocketMessage(message), ok),
                         !.chat_input = Some(<<>>),
                         !.messages = Append(@, [from |-> <<>>, message |-> message_content])],
                      FALSE)

\* Faulty variant of update_SubmitMessage: the text is sent under the
\* Register tag.
update_SubmitMessage_reregister(self, ok) ==
  IF ~self.chat_input.some THEN Return(self, FALSE)
  ELSE LET message_content == self.chat_input.v IN
       IF trim(message_content) = <<>> THEN Return(self, FALSE)
       ELSE LET message == [message_type |-> "Register",
                            data         |-> Some(message_content),
                            data_array   |-> None]
            IN Return([self EXCEPT
                         !.tx = try_send(@, to_string_WebSocketMessage(message), ok),
                         !.chat_input = Some(<<>>)],
                      FALSE)

\* Chat::update, Msg::SubmitMessage
update_SubmitMessage(self, ok) ==
  IF ~self.chat_input.some THEN Return(self, FALSE)
  ELSE LET message_content == self.chat_input.v IN
       IF trim(message_content) = <<>> THEN Return(self, FALSE)
       ELSE LET message == [message_type |-> "Message",
                            data         |-> Some(message_content),
                            data_array   |-> None]
            IN Return([self EXCEPT
                         !.tx = try_send(@, to_string_WebSocketMessage(message), ok),
                         !.chat_input = Some(<<>>)],
                      FALSE)

(***************************************************************************)
(* Chat::view: the thread projection.                                      *)
(***************************************************************************)
InitialsPrefix == "https://avatars.dicebear.com/api/initials/"
T_gif == <<".", "g", "i", "f">>

\* str::ends_with
ends_with(s, suffix) ==
  /\ Len(s) >= Len(suffix)
  /\ SubSeq(s, Len(s) - Len(suffix) + 1, Len(s)) = suffix

\* Positions of the roster entries found by |u| u.name == m.from.
named(self, m) == {k \in 1..Len(self.users) : self.users[k].name = m.from}

\* Faulty variant of avatar_src: a sender missing from the roster is shown
\* with the avatar of the first roster entry.
avatar_src_first(self, m) ==
  IF named(self, m) = {}
  THEN IF self.users = <<>> THEN <<InitialsPrefix>> \o m.from \o T_svg
       ELSE self.users[1].avatar
  ELSE self.users[CHOOSE k \in named(self, m) : \A j \in named(self, m) : k <= j].avatar

\* lines 185-189: the avatar of the first roster entry named m.from, or the
\* initials template on m.from when there is none.
avatar_src(self, m) ==
  IF named(self, m) = {} THEN <<InitialsPrefix>> \o m.from \o T_svg
  ELSE self.users[CHOOSE k \in named(self, m) : \A j \in named(self, m) : k <= j].avatar

\* Faulty variant of is_gif: ".gif" anywhere in the text counts.
is_gif_contains(m) ==
  \E i \in 1..Len(m.message) :
    i + 3 <= Len(m.message) /\ SubSeq(m.message, i, i + 3) = T_gif

\* line 200: the message is rendered as an image.
is_gif(m) == ends_with(m.message, T_gif)

\* lines 184-209: one rendered entry per message, in order.
view_thread(self) ==
  [i \in 1..Len(self.messages) |->
     [avatar_src |-> avatar_src(self, self.messages[i]),
      from       |-> self.messages[i].from,
      image      |-> is_gif(self.messages[i]),
      content    |-> self.messages[i].message]]

\* The component renders again when update returned true.
rerender(o, old) == IF o.ret THEN view_thread(o.self) ELSE old

(***************************************************************************)
(* Inputs of the model.                                                    *)
(***************************************************************************)
Usernames == {<<"a">>, <<"b">>}

\* What the user may have typed into the input element.
InputTexts == {<<>>, <<" ", " ">>, <<" ", "h", "i", " ">>, <<Q, "b", BS>>}

\* The nested payload of a Message envelope, as the server writes it.
PayloadText(from, message) ==
  <<"{">> \o WriteStr(F_from) \o <<":">> \o WriteStr(from) \o <<",">>
  \o WriteStr(F_message) \o <<":">> \o WriteStr(message) \o <<"}">>

Envelope(ty, da, d) == [message_type |-> ty, data_array |-> da, data |-> d]

\* Frames that decode and are applied.
GoodFrames ==
  { to_string_WebSocketMessage(Envelope("Users", Some(<< <<"a">>, <<"b">> >>), None)),
    to_string_WebSocketMessage(Envelope("Users", Some(<< <<"b">>, <<"b">> >>), None)),
    <<"{">> \o WriteStr(F_messageType) \o <<":">> \o WriteStr(MsgTypes.Users) \o <<"}">>,
    to_string_WebSocketMessage(Envelope("Users", None, None)),
    to_string_WebSocketMessage(
      Envelope("Message", None, Some(PayloadText(<<"a">>, <<"h", "i">>)))),
    to_string_WebSocketMessage(
      Envelope("Message", None, Some(PayloadText(<<"c">>, <<"x", ".", "g", "i", "f">>)))),
    to_string_WebSocketMessage(Envelope("Register", None, Some(<<"a">>))) }

\* Frames on which a decoding step fails.
BadFrames ==
  { to_string_WebSocketMessage(Envelope("Message", None, None)),
    to_string_WebSocketMessage(Envelope("Message", None, Some(<<"h", "i">>))),
    <<"{">> \o WriteStr(F_messageType) \o <<":">> \o WriteStr(<<"t", "y", "p", "i", "n", "g">>)
      \o <<"}">>,
    <<"{", Q, "m">> }

Frames == GoodFrames \cup BadFrames

\* The codec has not been applied on its own.
CodecIdle == [e |-> Envelope("Register", None, None), text |-> <<>>, back |-> Err]

\* Events that count against the bound: deliveries and Message send attempts.
Events == Len(delivered) + (Len(tx) - 1)

(***************************************************************************)
(* The state machine.                                                      *)
(***************************************************************************)
Init ==
  \E name \in Usernames, ok \in BOOLEAN :
    \E c \in {create(name, ok)} :
    /\ users = c.users
    /\ messages = c.messages
    /\ chat_input = c.chat_input
    /\ tx = c.tx
    /\ username = name
    /\ delivered = <<>>
    /\ last = [op |-> "create", ret |-> FALSE]
    /\ panicked = FALSE
    /\ submitted = <<>>
    /\ shown = <<>>
    /\ codec = CodecIdle

\* The first render binds chat_input to the (empty) input element.
Rendered ==
  /\ ~panicked
  /\ ~chat_input.some
  /\ chat_input' = Some(<<>>)
  /\ last' = [op |-> "rendered", ret |-> FALSE]
  /\ shown' = view_thread(Self)
  /\ UNCHANGED <<users, messages, tx, username, delivered, panicked, submitted, codec>>

\* The user edits the input element.
Input(text) ==
  /\ ~panicked
  /\ chat_input.some
  /\ chat_input' = Some(text)
  /\ last' = [op |-> "input", ret |-> FALSE]
  /\ UNCHANGED <<users, messages, tx, username, delivered, panicked, submitted, shown,
                 codec>>

\* The relay delivers frame s: update(Msg::HandleMsg(s)).
HandleMsg(s) ==
  /\ ~panicked
  /\ Events < MaxEvents
  /\ \E o \in {update_HandleMsg(Self, s)} :
     /\ users' = o.self.users
     /\ messages' = o.self.messages
     /\ chat_input' = o.self.chat_input
     /\ tx' = o.self.tx
     /\ panicked' = o.panicked
     /\ last' = [op |-> "HandleMsg", ret |-> o.ret]
     /\ shown' = rerender(o, shown)
  /\ delivered' = Append(delivered, s)
  /\ UNCHANGED <<username, submitted, codec>>

\* The user confirms the input (button or Enter): update(Msg::SubmitMessage).
\* The controls that raise it exist once the view has been rendered.
SubmitMessage(ok) ==
  /\ ~panicked
  /\ chat_input.some
  /\ \E o \in {update_SubmitMessage(Self, ok)} :
     /\ Len(delivered) + (Len(o.self.tx) - 1) <= MaxEvents
     /\ users' = o.self.users
     /\ messages' = o.self.messages
     /\ chat_input' = o.self.chat_input
     /\ tx' = o.self.tx
     /\ panicked' = o.panicked
     /\ last' = [op |-> "SubmitMessage", ret |-> o.ret]
     /\ shown' = rerender(o, shown)
  /\ submitted' = IF trim(chat_input.v) # <<>> THEN Append(submitted, chat_input.v)
                  ELSE submitted
  /\ UNCHANGED <<username, delivered, codec>>

Next ==
  \/ Rendered
  \/ \E text \in InputTexts : Input(text)
  \/ \E s \in Frames : HandleMsg(s)
  \/ \E ok \in BOOLEAN : SubmitMessage(ok)

Spec == Init /\ [][Next]_vars

(***************************************************************************)
(* The thread projection over many message texts: one Message envelope     *)
(* from sender a, carrying any text over a small alphabet, is delivered    *)
(* to the new component and rendered.                                      *)
(***************************************************************************)
GifAlphabet == {".", "g", "i", "f"}
UpperCaseTexts == {<<".", "G", "I", "F">>, <<"g", ".", "G", "i", "f">>, <<".", "g", "i", "F">>}
GifTexts == UNION {[1..n -> GifAlphabet] : n \in 0..MaxTextLen} \cup UpperCaseTexts

\* The Message envelope the server sends for a text said by from.
MessageFrame(from, text) ==
  to_string_WebSocketMessage(Envelope("Message", None, Some(PayloadText(from, text))))

DeliverText(text) ==
  /\ delivered = <<>>
  /\ HandleMsg(MessageFrame(<<"a">>, text))

NextView ==
  \/ Rendered
  \/ \E text \in GifTexts : DeliverText(text)

SpecView == Init /\ [][NextView]_vars

(***************************************************************************)
(* The envelope codec on its own: any WebSocketMessage value is written    *)
(* with to_string and the text is read back with from_str.                 *)
(***************************************************************************)
\* Characters the writer escapes, and n, which follows the backslash in the
\* escape of a line feed.
DataAlphabet == {Q, BS, LF, "n"}
DataStrings == UNION {[1..n -> DataAlphabet] : n \in 0..MaxStrLen}
ItemStrings == {<<>>, <<Q>>, <<",">>}
DataArrays == UNION {[1..n -> ItemStrings] : n \in 0..MaxArrLen}
Envelopes ==
  {Envelope(ty, da, d) :
     ty \in DOMAIN MsgTypes,
     da \in {None} \cup {Some(a) : a \in DataArrays},
     d \in {None} \cup {Some(x) : x \in DataStrings}}

RoundTrip(e) ==
  /\ codec = CodecIdle
  /\ \E text \in {to_string_WebSocketMessage(e)} :
       codec' = [e |-> e, text |-> text, back |-> from_str_WebSocketMessage(text)]
  /\ UNCHANGED <<users, messages, chat_input, tx, username, delivered, last,
                 panicked, submitted, shown>>

NextCodec == \E e \in Envelopes : RoundTrip(e)

SpecCodec == Init /\ [][NextCodec]_vars

(***************************************************************************)
(* Vocabulary of the properties.                                           *)
(***************************************************************************)
\* What each inbound frame of the model decodes to: the envelope, and the
\* record nested in its data (an error when there is no data to decode).
EnvelopeOf == [s \in Frames |-> from_str_WebSocketMessage(s)]
NestedOf ==
  [s \in Frames |->
     IF EnvelopeOf[s].ok /\ EnvelopeOf[s].v.data.some
     THEN from_str_MessageData(EnvelopeOf[s].v.data.v)
     ELSE Err]

\* Frame s decodes to an envelope with tag ty.
HasTag(s, ty) == EnvelopeOf[s].ok /\ EnvelopeOf[s].v.message_type = ty

\* The dataArray of a Users frame, the empty sequence when it is absent.
NamesOf(s) ==
  IF EnvelopeOf[s].v.data_array.some THEN EnvelopeOf[s].v.data_array.v ELSE <<>>

\* Frame s is a Message envelope whose data decodes to a {from, message} record.
ValidMessage(s) == HasTag(s, "Message") /\ NestedOf[s].ok

\* The {from, message} record a valid Message frame carries.
PayloadOf(s) == NestedOf[s].v

\* Frame s is one on which a decoding step of the handler fails.
DecodeFails(s) ==
  \/ ~EnvelopeOf[s].ok
  \/ HasTag(s, "Message") /\ ~NestedOf[s].ok

\* The names of the roster, in order.
RosterNames == [i \in 1..Len(users) |-> users[i].name]

\* Positions of the Users frames delivered so far.
UsersDeliveries == {i \in 1..Len(delivered) : HasTag(delivered[i], "Users")}

RECURSIVE PayloadsOf(_)
\* The payloads of the valid Message frames of a sequence of frames, in order.
PayloadsOf(frames) ==
  IF frames = <<>> THEN <<>>
  ELSE IF ValidMessage(Head(frames))
       THEN <<PayloadOf(Head(frames))>> \o PayloadsOf(Tail(frames))
       ELSE PayloadsOf(Tail(frames))

FrameUsersAB == to_string_WebSocketMessage(Envelope("Users", Some(<< <<"a">>, <<"b">> >>), None))
FrameUsersBB == to_string_WebSocketMessage(Envelope("Users", Some(<< <<"b">>, <<"b">> >>), None))
MsgHi  == [from |-> <<"a">>, message |-> <<"h", "i">>]
MsgGif == [from |-> <<"c">>, message |-> <<"x", ".", "g", "i", "f">>]

(***************************************************************************)
(* Properties.                                                             *)
(***************************************************************************)

\* C1: at every moment the roster holds exactly one entry per element of the
\* dataArray of the Users envelope delivered last, with the same names in the
\* same order (duplicates kept), whatever the roster held before; any event
\* after that envelope other than a Users envelope leaves those names alone.
C1_RosterIsLastUsers ==
  IF UsersDeliveries = {} THEN users = <<>>
  ELSE LET n == CHOOSE i \in UsersDeliveries : \A j \in UsersDeliveries : j <= i
       IN /\ Len(users) = Len(NamesOf(delivered[n]))
          /\ \A i \in 1..Len(users) : users[i].name = NamesOf(delivered[n])[i]

\* A Users envelope [b, b] applied on top of the roster [a, b].
C1_Witness ==
  /\ Len(delivered) >= 2
  /\ last.op = "HandleMsg"
  /\ delivered[Len(delivered) - 1] = FrameUsersAB
  /\ delivered[Len(delivered)] = FrameUsersBB
  /\ RosterNames = << <<"b">>, <<"b">> >>

\* C2: delivering a Message envelope with a valid payload makes messages one
\* longer, keeps every earlier entry at its position and puts the decoded
\* record at the end.
C2_MessageAppends ==
  [][ (delivered' # delivered /\ ValidMessage(delivered'[Len(delivered')]))
      => /\ Len(messages') = Len(messages) + 1
         /\ \A i \in 1..Len(messages) : messages'[i] = messages[i]
         /\ messages'[Len(messages')] = PayloadOf(delivered'[Len(delivered')]) ]_vars

\* A valid Message envelope applied to a thread that already held another.
C2_Witness ==
  /\ last.op = "HandleMsg"
  /\ delivered # <<>> /\ ValidMessage(delivered[Len(delivered)])
  /\ messages = <<MsgGif, MsgHi>>

\* C3: in every reachable state messages is the sequence of the payloads of
\* the valid Message envelopes delivered so far, in delivery order; as
\* deliveries only accumulate, messages never shrinks.
C3_ThreadIsDeliveries == messages = PayloadsOf(delivered)

\* The same message delivered twice in a run in which a submit sent a frame:
\* both copies are in the thread.
C3_Witness ==
  /\ Len(messages) = 2
  /\ messages[1] = messages[2]
  /\ Len(tx) = 2
  /\ last.op = "HandleMsg"

TextBlank == <<" ", " ">>
TextHi    == <<" ", "h", "i", " ">>

\* {"messageType":"message","dataArray":null,"data":" hi "}, written out.
FrameSentHi ==
  <<"{", Q, "m", "e", "s", "s", "a", "g", "e", "T", "y", "p", "e", Q, ":",
    Q, "m", "e", "s", "s", "a", "g", "e", Q, ",",
    Q, "d", "a", "t", "a", "A", "r", "r", "a", "y", Q, ":", "n", "u", "l", "l", ",",
    Q, "d", "a", "t", "a", Q, ":", Q, " ", "h", "i", " ", Q, "}">>

\* C4: a submit while the input text is empty after trimming changes nothing:
\* no send attempt, the input keeps its value, roster and messages are
\* unchanged, and update returns false.
C4_BlankSubmitNoOp ==
  [][ (last'.op = "SubmitMessage" /\ chat_input.some /\ trim(chat_input.v) = <<>>)
      => /\ UNCHANGED <<users, messages, chat_input, tx>>
         /\ last'.ret = FALSE
         /\ ~panicked' ]_vars

\* A submit has just been handled with two blanks in the input.
C4_Witness ==
  /\ last.op = "SubmitMessage"
  /\ chat_input = Some(TextBlank)
  /\ Len(tx) = 1

\* C5: a submit while the input text is non-empty after trimming makes exactly
\* one send attempt; the frame sent decodes to messageType = message,
\* dataArray absent, data = the raw input text; afterwards the input is empty.
C5_SubmitSendsRawText ==
  [][ (last'.op = "SubmitMessage" /\ chat_input.some /\ trim(chat_input.v) # <<>>)
      => /\ Len(tx') = Len(tx) + 1
         /\ \A i \in 1..Len(tx) : tx'[i] = tx[i]
         /\ from_str_WebSocketMessage(tx'[Len(tx')].frame)
              = Ok(Envelope("Message", None, Some(chat_input.v)))
         /\ chat_input' = Some(<<>>) ]_vars

\* " hi " has just been submitted: the frame sent carries it untrimmed.
C5_Witness ==
  /\ last.op = "SubmitMessage"
  /\ Len(tx) = 2
  /\ tx[2].frame = FrameSentHi
  /\ chat_input = Some(<<>>)

\* C6: when the transport rejects the send of a submitted message, there is
\* that one attempt and no other, the input is cleared, roster and messages are
\* unchanged, update returns false without a panic, and the component is left
\* exactly as an accepted send would have left it, so later events are handled
\* the same way.
C6_SendFailureAbsorbed ==
  [][ (last'.op = "SubmitMessage" /\ Len(tx') > Len(tx) /\ ~tx'[Len(tx')].ok)
      => /\ Len(tx') = Len(tx) + 1
         /\ chat_input' = Some(<<>>)
         /\ users' = users
         /\ messages' = messages
         /\ last'.ret = FALSE
         /\ ~panicked'
         /\ \E t \in {update_SubmitMessage(Self, TRUE)} :
              /\ ~t.panicked
              /\ users' = t.self.users
              /\ messages' = t.self.messages
              /\ chat_input' = t.self.chat_input
              /\ Len(tx') = Len(t.self.tx)
              /\ tx'[Len(tx')].frame = t.self.tx[Len(t.self.tx)].frame ]_vars

\* A submit whose send was rejected has just been handled.
C6_Witness ==
  /\ last.op = "SubmitMessage"
  /\ Len(tx) = 2
  /\ ~tx[2].ok
  /\ chat_input = Some(<<>>)
  /\ users # <<>>

\* C7: a submit changes neither messages nor roster, and every entry of
\* messages is the payload of a Message envelope that was delivered: a text
\* that was sent is in the thread only once its echo has been applied.
C7_NoOptimisticAppend ==
  /\ [](\A i \in 1..Len(messages) :
          \E j \in 1..Len(delivered) :
            ValidMessage(delivered[j]) /\ PayloadOf(delivered[j]) = messages[i])
  /\ [][ last'.op = "SubmitMessage" => (messages' = messages /\ users' = users) ]_vars

\* " hi " was sent and accepted by the transport, no echo was delivered, and
\* the thread is still empty.
C7_Witness ==
  /\ last.op = "SubmitMessage"
  /\ Len(tx) = 2
  /\ tx[2].ok
  /\ tx[2].frame = FrameSentHi
  /\ messages = <<>>

\* C8: the first send attempt of a run is the Register envelope with data =
\* username and dataArray absent; right after creation it is the only attempt,
\* accepted or not, and roster and messages are empty.
C8_CreateRegistersOnce ==
  /\ Len(tx) >= 1
  /\ from_str_WebSocketMessage(tx[1].frame) = Ok(Envelope("Register", None, Some(username)))
  /\ last.op = "create" =>
       (Len(tx) = 1 /\ users = <<>> /\ messages = <<>> /\ chat_input = None /\ ~panicked)

\* The component has just been created and its Register send was rejected.
C8_Witness ==
  /\ last.op = "create"
  /\ ~tx[1].ok

\* C9: delivering an envelope with tag Register changes neither roster nor
\* messages, sends nothing, and update returns false.
C9_OtherTagNoOp ==
  [][ (delivered' # delivered /\ HasTag(delivered'[Len(delivered')], "Register"))
      => /\ UNCHANGED <<users, messages, chat_input, tx>>
         /\ last'.ret = FALSE
         /\ ~panicked' ]_vars

\* A Register envelope has just been delivered to a component with a roster
\* and a thread.
C9_Witness ==
  /\ last.op = "HandleMsg"
  /\ delivered # <<>> /\ HasTag(delivered[Len(delivered)], "Register")
  /\ users # <<>>
  /\ messages # <<>>

\* C10: delivering a frame on which decoding fails (the text is no envelope,
\* or it is a Message envelope whose data is absent or no {from, message}
\* record) ends the handler in a panic: nothing is appended to messages, the
\* roster is unchanged and no re-render is signalled.
C10_DecodeFailureAborts ==
  [][ (delivered' # delivered /\ DecodeFails(delivered'[Len(delivered')]))
      => /\ UNCHANGED <<users, messages, chat_input, tx>>
         /\ last'.ret = FALSE
         /\ panicked' ]_vars

\* A Message envelope whose data is the bare text hi has just been delivered
\* to a component with a roster and a thread.
C10_Witness ==
  /\ panicked
  /\ last.op = "HandleMsg"
  /\ delivered[Len(delivered)]
       = to_string_WebSocketMessage(Envelope("Message", None, Some(<<"h", "i">>)))
  /\ users # <<>>
  /\ messages # <<>>

FrameTruncated == <<"{", Q, "m">>
FrameTyping ==
  <<"{">> \o WriteStr(F_messageType) \o <<":">> \o WriteStr(<<"t", "y", "p", "i", "n", "g">>)
  \o <<"}">>

\* C11: the machine has no terminal state: in every reachable state in which
\* the bound of the model leaves room for one more event, a next inbound frame
\* can be handled, and so can a next submit once the input element exists.
C11_NoTerminalState ==
  Events < MaxEvents =>
    /\ ENABLED (\E s \in Frames : HandleMsg(s))
    /\ chat_input.some => ENABLED (\E ok \in BOOLEAN : SubmitMessage(ok))

\* C15: delivering an envelope whose messageType is none of the three tags
\* leaves roster and messages unchanged and leaves the machine running, so
\* that later inbound events are still handled.
C15_UnknownTagDropped ==
  [][ (delivered' # delivered /\ delivered'[Len(delivered')] = FrameTyping)
      => /\ users' = users
         /\ messages' = messages
         /\ ~panicked' ]_vars

\* C12: in every reachable state the thread projection gives each message
\* the avatar of every roster entry named exactly like its sender, looked up in
\* the roster as it is now; when no entry has that name (also when a later
\* Users envelope removed the sender) it gives the initials template on the
\* sender's name, and in no case the avatar of an entry with another name.
C12_AvatarLookup ==
  \A i \in 1..Len(messages) :
    \E v \in {view_thread(Self)[i]} :
      /\ \A k \in 1..Len(users) :
           users[k].name = messages[i].from => v.avatar_src = users[k].avatar
      /\ (\A k \in 1..Len(users) : users[k].name # messages[i].from)
           => v.avatar_src = <<InitialsPrefix>> \o messages[i].from \o T_svg
      /\ \A k \in 1..Len(users) :
           users[k].name # messages[i].from => v.avatar_src # users[k].avatar

\* a was in the roster, said hi, and was then removed by the roster [b, b]:
\* the thread rendered after that shows a with the initials template.
C12_Witness ==
  /\ delivered = <<FrameUsersAB, MessageFrame(<<"a">>, <<"h", "i">>), FrameUsersBB>>
  /\ RosterNames = << <<"b">>, <<"b">> >>
  /\ Len(shown) = 1
  /\ shown[1].avatar_src = <<InitialsPrefix, "a", ".", "s", "v", "g">>

\* C13: a rendered message is flagged as an image exactly when its text has
\* at least four characters and the last four are ".", "g", "i", "f".
C13_GifSuffix ==
  /\ last.ret => Len(shown) = Len(messages)
  /\ \A i \in 1..Len(shown) :
       \E c \in {shown[i].content} :
         /\ Len(shown) = Len(messages) => c = messages[i].message
         /\ shown[i].image <=>
              /\ Len(c) >= 4
              /\ c[Len(c) - 3] = "."
              /\ c[Len(c) - 2] = "g"
              /\ c[Len(c) - 1] = "i"
              /\ c[Len(c)] = "f"

\* The text g.gif was delivered and is rendered as an image.
C13_Witness ==
  /\ Len(shown) = 1
  /\ shown[1].content = <<"g", ".", "g", "i", "f">>
  /\ shown[1].image

\* C14: an envelope written with to_string and read back with from_str is
\* the envelope that was written, for each of the three tags and with data and
\* dataArray each present or absent.
C14_RoundTrip ==
  codec # CodecIdle =>
    /\ codec.text = to_string_WebSocketMessage(codec.e)
    /\ codec.back = Ok(codec.e)

\* A Users envelope with a quote and a comma in dataArray and a backslash
\* followed by n in data came back as written.
C14_Witness ==
  /\ codec.e = Envelope("Users", Some(<< <<Q>>, <<",">> >>), Some(<<BS, "n">>))
  /\ codec.back = Ok(codec.e)

FrameUsersNull == to_string_WebSocketMessage(Envelope("Users", None, None))
FrameUsersMissing ==
  <<"{">> \o WriteStr(F_messageType) \o <<":">> \o WriteStr(MsgTypes.Users) \o <<"}">>
TextQuoted == <<Q, "b", BS>>

\* C16: delivering a Users envelope whose dataArray is null or missing leaves
\* the roster empty, whatever it held, and update returns true; the thread is
\* not touched.
C16_AbsentArrayEmptiesRoster ==
  [][ ( /\ delivered' # delivered
        /\ HasTag(delivered'[Len(delivered')], "Users")
        /\ ~EnvelopeOf[delivered'[Len(delivered')]].v.data_array.some )
      => /\ users' = <<>>
         /\ last'.ret = TRUE
         /\ ~panicked'
         /\ messages' = messages ]_vars

\* The roster [a, b] was emptied by a Users envelope with dataArray null, and
\* again by one with no dataArray key.
C16_Witness ==
  /\ last.op = "HandleMsg" /\ last.ret
  /\ delivered = <<FrameUsersAB, FrameUsersNull, FrameUsersMissing>>
  /\ users = <<>>

\* C17: an inbound step that returns does so with true exactly when the frame
\* is a Users envelope or a Message envelope with a valid payload, and those
\* frames always return; a submit step returns false whether or not it sent.
C17_RerenderSignal ==
  [][ /\ (delivered' # delivered) =>
            /\ ~panicked' =>
                 (last'.ret <=> \/ HasTag(delivered'[Len(delivered')], "Users")
                                \/ ValidMessage(delivered'[Len(delivered')]))
            /\ ( \/ HasTag(delivered'[Len(delivered')], "Users")
                 \/ ValidMessage(delivered'[Len(delivered')]) )
                 => (~panicked' /\ last'.ret)
      /\ (last'.op = "SubmitMessage") => ~last'.ret ]_vars

\* The Users envelope [a, b] was delivered twice in a row: the second delivery
\* left the roster as it was and still returned true.
C17_Witness ==
  /\ last.op = "HandleMsg" /\ last.ret
  /\ Len(delivered) >= 2
  /\ delivered[Len(delivered) - 1] = FrameUsersAB
  /\ delivered[Len(delivered)] = FrameUsersAB
  /\ RosterNames = << <<"a">>, <<"b">> >>

\* C18: every roster entry's avatar is the adventurer-neutral URL of its own
\* name, so entries with equal names have equal avatars.
C18_AvatarFromName ==
  /\ \A i \in 1..Len(users) :
       users[i].avatar = <<AvatarPrefix>> \o users[i].name \o <<".", "s", "v", "g">>
  /\ \A i, j \in 1..Len(users) :
       users[i].name = users[j].name => users[i].avatar = users[j].avatar

\* The roster holds two entries named b, with one and the same avatar.
C18_Witness ==
  /\ Len(users) = 2
  /\ users[1].name = <<"b">> /\ users[2].name = <<"b">>
  /\ users[1].avatar = <<AvatarPrefix, "b", ".", "s", "v", "g">>
  /\ users[2].avatar = users[1].avatar

\* C19: a delivery never sends and never changes the input field; a Users
\* envelope leaves the thread alone and a Message envelope leaves the roster
\* alone.
C19_InboundFrame ==
  [][ (delivered' # delivered)
      => /\ tx' = tx
         /\ chat_input' = chat_input
         /\ HasTag(delivered'[Len(delivered')], "Users") => messages' = messages
         /\ HasTag(delivered'[Len(delivered')], "Message") => users' = users ]_vars

\* A Users envelope has just replaced the roster of a component that has a
\* thread and a typed, unsent text.
C19_Witness ==
  /\ last.op = "HandleMsg"
  /\ delivered # <<>> /\ HasTag(delivered[Len(delivered)], "Users")
  /\ users # <<>>
  /\ messages # <<>>
  /\ chat_input = Some(TextHi)

\* C20: the send attempts of a run are the Register envelope of the username
\* followed by one Message envelope per non-blank submit, in submit order,
\* each with data = the submitted text and dataArray absent; only a submit
\* adds an attempt, and attempts already made never change.
C20_OutboundSequence ==
  /\ [](/\ Len(tx) = Len(submitted) + 1
        /\ from_str_WebSocketMessage(tx[1].frame)
             = Ok(Envelope("Register", None, Some(username))))
  /\ [][ /\ \A i \in 1..Len(tx) : i <= Len(tx') /\ tx'[i] = tx[i]
         /\ Len(tx') > Len(tx) =>
              /\ last'.op = "SubmitMessage"
              /\ Len(tx') = Len(tx) + 1
              /\ submitted' = Append(submitted, chat_input.v)
              /\ from_str_WebSocketMessage(tx'[Len(tx')].frame)
                   = Ok(Envelope("Message", None, Some(chat_input.v))) ]_vars

\* " hi " and then "b\ (with a leading quote) were submitted: three attempts.
C20_Witness ==
  /\ submitted = <<TextHi, TextQuoted>>
  /\ Len(tx) = 3

====
